---- MODULE Spec2Model ----
(***************************************************************************)
(* A model of src/main.py: the bilingual current-affairs pipeline.         *)
(*                                                                         *)
(*   check_and_insert_urls                the Dedup Gate                   *)
(*   translate_to_gujarati                the Translator (retry/fallback)  *)
(*   scrape_and_get_content               the Article Extractor            *)
(*   insert_content_between_placeholders  the Document Assembler           *)
(*   send_pdf_to_telegram, main           delivery and the driver          *)
(*                                                                         *)
(* A text is a sequence of word tokens: `x in text` of the source is       *)
(* "token x occurs in the sequence", and string formatting is              *)
(* concatenation of token sequences.                                       *)
(***************************************************************************)
EXTENDS Naturals, Sequences, FiniteSets

VARIABLES
    collection,     \* the MongoDB collection: the set of url values stored
    dedup_log,      \* the last call of check_and_insert_urls, after the one before it
                    \* when both had the same input
    translation,    \* the last call of translate_to_gujarati
    pc,             \* where main stands
    template,       \* the document as loaded from the template (main.py 208)
    doc,            \* the document object main holds, mutated in place
    all_content,    \* main's all_content list
    insertion,      \* how the call of insert_content_between_placeholders ended
    sc_pc,          \* where the running call of scrape_and_get_content stands
    page,           \* the page that call fetched
    tag_index,      \* the direct child its loop of line 71 is at
    li_index,       \* the list item its loop of line 86 is at
    content_list,   \* its content_list
    degraded,       \* for each pair of content_list, whether the translator call that
                    \* gave its translated text ended without a service result
    new_urls,       \* main's new_urls
    url_index,      \* the URL main's loop of line 212 is at
    saved,          \* doc.save ran in this run (main.py 220)
    converted,      \* convert_docx_to_pdf returned in this run (main.py 224)
    delivery,       \* how send_pdf_to_telegram went in this run (main.py 232)
    extracted,      \* for each URL, how many times scrape_and_get_content was called
                    \* with it, over all runs
    returned        \* the lists scrape_and_get_content returned to main in this
                    \* run, in the order of the returns

dedup_vars == <<dedup_log>>
translate_vars == <<translation>>
scrape_vars == <<sc_pc, page, tag_index, li_index, content_list, degraded>>
assemble_vars == <<template, doc, all_content, insertion>>
run_vars == <<new_urls, url_index, saved, converted, delivery>>
main_vars == <<pc, assemble_vars, run_vars>>

vars == <<collection, dedup_log, translation, pc, template, doc, all_content, insertion,
          sc_pc, page, tag_index, li_index, content_list, degraded,
          new_urls, url_index, saved, converted, delivery, extracted, returned>>

----------------------------------------------------------------------------
(* Bounds of the model *)

MaxUrls == 3        \* length of a discovered URL list
MaxChildren == 2    \* direct children of the content container
MaxParas == 5       \* paragraphs of a template
MaxContent == 3     \* blocks of a content list handed to the assembler

Range(s) == {s[i] : i \in 1..Len(s)}

RECURSIVE SeqsUpTo(_, _)
SeqsUpTo(S, n) ==
    IF n = 0 THEN {<<>>}
    ELSE LET shorter == SeqsUpTo(S, n - 1)
         IN  shorter \cup {Append(s, x) : s \in {t \in shorter : Len(t) = n - 1}, x \in S}

----------------------------------------------------------------------------
(* The Dedup Gate: check_and_insert_urls, main.py 139-145 *)

Urls == {"u1", "u2", "u3"}

UrlLists == SeqsUpTo(Urls, MaxUrls)

\* a lookup that finds nothing, so that every URL counts as new
find_one_finding_nothing(coll, url) == FALSE

\* collection.find_one({'url': url}) is truthy
find_one(coll, url) == url \in coll

\* a gate that reports a URL as new and does not record it
insert_one_dropped(coll, url) == coll

\* collection.insert_one({'url': url})
insert_one(coll, url) == coll \cup {url}

\* the for loop of check_and_insert_urls over the URLs still to visit; result is
\* the list new_urls so far
RECURSIVE check_loop(_, _, _)
check_loop(urls, coll, result) ==
    IF urls = <<>>
    THEN [new_urls |-> result, collection |-> coll]
    ELSE LET url == Head(urls)
         IN  IF ~find_one(coll, url)
             THEN check_loop(Tail(urls), insert_one(coll, url), Append(result, url))
             ELSE check_loop(Tail(urls), coll, result)

\* a batched gate: every URL is checked against the collection as it was at the
\* start of the call, and the new ones are inserted after the loop
check_and_insert_urls_batched(urls, coll) ==
    LET result == SelectSeq(urls, LAMBDA url : ~find_one(coll, url))
    IN  [new_urls |-> result, collection |-> coll \cup Range(result)]

check_and_insert_urls(urls, coll) == check_loop(urls, coll, <<>>)

\* One call of the gate on the stored collection. The log keeps this call, and
\* before it the previous call when that one had the same input.
CheckAndInsert(urls) ==
    LET r == check_and_insert_urls(urls, collection)
        call == [urls |-> urls, before |-> collection, ret |-> r.new_urls]
        last == dedup_log[Len(dedup_log)]
    IN  /\ collection' = r.collection
        /\ dedup_log' = IF dedup_log # <<>> /\ last.urls = urls
                        THEN <<last, call>>
                        ELSE <<call>>

DedupCall ==
    /\ \E urls \in UrlLists : CheckAndInsert(urls)
    /\ UNCHANGED <<extracted, returned, translate_vars, scrape_vars, main_vars>>

(* Claims about the Dedup Gate *)

LastDedup == dedup_log[Len(dedup_log)]

NoRepeats(s) == \A i, j \in 1..Len(s) : s[i] = s[j] => i = j

FirstIndex(s, x) == CHOOSE i \in 1..Len(s) : s[i] = x /\ \A j \in 1..(i - 1) : s[j] # x

\* s lists its elements in the order of their first occurrence in urls
InFirstOccurrenceOrder(s, urls) ==
    \A i, j \in 1..Len(s) : i < j => FirstIndex(urls, s[i]) < FirstIndex(urls, s[j])

\* C1: when two successive calls get the same input, none of whose URLs was in
\* the seen-set before the first, the first call returns every distinct URL of
\* the input (each once) and the second returns the empty sequence.
C1_DedupIdempotent ==
    (/\ Len(dedup_log) = 2
     /\ Range(dedup_log[1].urls) \cap dedup_log[1].before = {})
    => /\ Range(dedup_log[1].ret) = Range(dedup_log[1].urls)
       /\ NoRepeats(dedup_log[1].ret)
       /\ dedup_log[2].ret = <<>>

\* two successive calls with the same input of two distinct unseen URLs, one repeated
C1_Witness ==
    /\ Len(dedup_log) = 2
    /\ Range(dedup_log[1].urls) \cap dedup_log[1].before = {}
    /\ Cardinality(Range(dedup_log[1].urls)) >= 2
    /\ ~NoRepeats(dedup_log[1].urls)
    /\ dedup_log[2].urls = dedup_log[1].urls

\* C2: a call returns exactly the input URLs that were absent from the seen-set
\* at its start, each once, in the order of their first occurrence in the
\* input, and on return every input URL is in the seen-set.
C2_DedupReturnsNewInOrder ==
    dedup_log # <<>> =>
        /\ Range(LastDedup.ret) = Range(LastDedup.urls) \ LastDedup.before
        /\ NoRepeats(LastDedup.ret)
        /\ InFirstOccurrenceOrder(LastDedup.ret, LastDedup.urls)
        /\ Range(LastDedup.urls) \subseteq collection

\* a call whose input holds a URL already seen and a new URL twice
C2_Witness ==
    /\ dedup_log # <<>>
    /\ Range(LastDedup.urls) \cap LastDedup.before # {}
    /\ \E i, j \in 1..Len(LastDedup.urls) :
           /\ i < j
           /\ LastDedup.urls[i] = LastDedup.urls[j]
           /\ LastDedup.urls[i] \notin LastDedup.before
    /\ LastDedup.ret # <<>>

----------------------------------------------------------------------------
(* The Translator: translate_to_gujarati, main.py 43-55 *)

\* one attempt too many
max_retries_plus_one == 3 + 1

max_retries == 3

Words == {"w1", "w2", "w3", "w4"}

Texts == {<<w>> : w \in Words}

\* what the translation service does on one attempt
Outcomes == {"ok", "notfound", "error"}

\* what the service does on each of the attempts a call may make
Behaviours == [1..max_retries -> Outcomes]

\* GoogleTranslator(source='auto', target='gu').translate(text), when it succeeds
GoogleTranslate(text) == <<"gu">> \o text

\* a loop that treats "translation not found" like any other error: it waits and
\* tries again
RECURSIVE translate_loop_retrying_notfound(_, _, _, _)
translate_loop_retrying_notfound(text, behaviour, attempt, sleeps) ==
    IF attempt > max_retries
    THEN [ret |-> text, attempts |-> attempt - 1, sleeps |-> sleeps, raised |-> "none"]
    ELSE IF behaviour[attempt] = "ok"
         THEN [ret |-> GoogleTranslate(text), attempts |-> attempt,
               sleeps |-> sleeps, raised |-> "none"]
         ELSE translate_loop_retrying_notfound(text, behaviour, attempt + 1, sleeps + 1)

\* a loop without the `return text` of line 55: when the attempts are used up
\* the call returns nothing, an empty text here
RECURSIVE translate_loop_returning_nothing(_, _, _, _)
translate_loop_returning_nothing(text, behaviour, attempt, sleeps) ==
    IF attempt > max_retries
    THEN [ret |-> <<>>, attempts |-> attempt - 1, sleeps |-> sleeps, raised |-> "none"]
    ELSE CASE behaviour[attempt] = "ok" ->
                [ret |-> GoogleTranslate(text), attempts |-> attempt,
                 sleeps |-> sleeps, raised |-> "none"]
           [] behaviour[attempt] = "notfound" ->
                [ret |-> text, attempts |-> attempt,
                 sleeps |-> sleeps, raised |-> "none"]
           [] OTHER ->
                translate_loop_returning_nothing(text, behaviour, attempt + 1, sleeps + 1)

\* the for loop of translate_to_gujarati from attempt `attempt` on;
\* sleeps counts the time.sleep(2) calls made so far
RECURSIVE translate_loop(_, _, _, _)
translate_loop(text, behaviour, attempt, sleeps) ==
    IF attempt > max_retries
    THEN [ret |-> text, attempts |-> attempt - 1, sleeps |-> sleeps, raised |-> "none"]
    ELSE CASE behaviour[attempt] = "ok" ->
                [ret |-> GoogleTranslate(text), attempts |-> attempt,
                 sleeps |-> sleeps, raised |-> "none"]
           [] behaviour[attempt] = "notfound" ->
                [ret |-> text, attempts |-> attempt,
                 sleeps |-> sleeps, raised |-> "none"]
           [] OTHER ->
                translate_loop(text, behaviour, attempt + 1, sleeps + 1)

\* a translator without the `except Exception` clause: the first service error
\* reaches the caller
translate_to_gujarati_uncaught(text, behaviour) ==
    IF behaviour[1] = "error"
    THEN [ret |-> <<>>, attempts |-> 1, sleeps |-> 0, raised |-> "Exception"]
    ELSE translate_loop(text, behaviour, 1, 0)

translate_to_gujarati(text, behaviour) == translate_loop(text, behaviour, 1, 0)

NoTranslation ==
    [state |-> "idle", text |-> <<>>, behaviour |-> [k \in 1..max_retries |-> "ok"],
     ret |-> <<>>, attempts |-> 0, sleeps |-> 0, raised |-> "none"]

Translate(text, behaviour) ==
    LET r == translate_to_gujarati(text, behaviour)
    IN  translation' = [state |-> "returned", text |-> text, behaviour |-> behaviour,
                        ret |-> r.ret, attempts |-> r.attempts, sleeps |-> r.sleeps,
                        raised |-> r.raised]

TranslateCall ==
    /\ \E text \in Texts, behaviour \in Behaviours : Translate(text, behaviour)
    /\ UNCHANGED <<collection, dedup_vars, extracted, returned, scrape_vars, main_vars>>

(* Claims about the Translator *)

\* the attempts before attempt k all failed with an error other than not-found
ErrorsBefore(behaviour, k) == \A j \in 1..(k - 1) : behaviour[j] = "error"

\* attempt k is the first whose outcome is `outcome`, every earlier one an error
FirstSettledBy(behaviour, k, outcome) ==
    /\ k \in DOMAIN behaviour
    /\ behaviour[k] = outcome
    /\ ErrorsBefore(behaviour, k)

\* C7: when every service call fails with an error other than not-found, the
\* call returns the text unchanged after exactly 3 service attempts.
C7_TranslatorFallback ==
    (/\ translation.state = "returned"
     /\ \A k \in DOMAIN translation.behaviour : translation.behaviour[k] = "error")
    => /\ translation.ret = translation.text
       /\ translation.attempts = 3

\* a call during which the service failed on every attempt
C7_Witness ==
    /\ translation.state = "returned"
    /\ \A k \in DOMAIN translation.behaviour : translation.behaviour[k] = "error"
    /\ translation.attempts > 0

\* C8: on whichever attempt the service reports not-found, the call returns the
\* original text at once: that attempt is the last service call, and the only
\* waits are the ones that followed the earlier errors.
C8_NotFoundIsTerminal ==
    \A k \in 1..3 :
        (/\ translation.state = "returned"
         /\ FirstSettledBy(translation.behaviour, k, "notfound"))
        => /\ translation.ret = translation.text
           /\ translation.attempts = k
           /\ translation.sleeps = k - 1

\* a call that met not-found on its second attempt, with further attempts that
\* would have succeeded
C8_Witness ==
    /\ translation.state = "returned"
    /\ FirstSettledBy(translation.behaviour, 2, "notfound")
    /\ translation.behaviour[3] = "ok"
    /\ translation.attempts = 2

\* C9: for every sequence of service outcomes the call ends after at most 3
\* service attempts, raises nothing, and returns the service result of the
\* first successful attempt or else the original text.
C9_TranslatorNeverFails ==
    translation.state = "returned" =>
        /\ translation.attempts \in 1..3
        /\ translation.raised = "none"
        /\ IF \E k \in 1..3 : FirstSettledBy(translation.behaviour, k, "ok")
           THEN /\ translation.ret = GoogleTranslate(translation.text)
                /\ FirstSettledBy(translation.behaviour, translation.attempts, "ok")
           ELSE translation.ret = translation.text

\* a call that succeeded on its third attempt, after two errors
C9_Witness ==
    /\ translation.state = "returned"
    /\ FirstSettledBy(translation.behaviour, 3, "ok")
    /\ translation.ret = GoogleTranslate(translation.text)

----------------------------------------------------------------------------
(* The Article Extractor: scrape_and_get_content, main.py 57-91 *)

(* A page is what requests.get and BeautifulSoup give for an article URL:      *)
(* whether the fetch succeeded, whether the content container and the heading  *)
(* are there, the heading's text and the container's direct children in        *)
(* document order. A child has its tag name, its class list (<<>> when it has  *)
(* none), its text and, for a list, the texts of its list items.               *)

ShareClass ==
    <<"sharethis-inline-share-buttons", "st-center", "st-has-labels",
      "st-inline-share-buttons", "st-animated">>

\* the two class lists of main.py 72
SkipClasses == {ShareClass, <<"prenext">>}

Tag(name, class, text, lis) == [name |-> name, class |-> class, text |-> text, lis |-> lis]

TagKinds ==
    {Tag("p", <<>>, <<"a">>, <<>>),
     Tag("h2", <<>>, <<"b">>, <<>>),
     Tag("h4", <<>>, <<"c">>, <<>>),
     Tag("ul", <<>>, <<"d", "e">>, << <<"d">>, <<"e">> >>),
     Tag("div", <<>>, <<"f">>, <<>>),
     Tag("div", ShareClass, <<"g">>, <<>>),
     Tag("p", <<"prenext">>, <<"n">>, <<>>)}

Article(heading_text, children) ==
    [fetch |-> "ok", main_content |-> TRUE, heading |-> TRUE,
     heading_text |-> heading_text, children |-> children]

FetchFailure ==
    [fetch |-> "error", main_content |-> FALSE, heading |-> FALSE,
     heading_text |-> <<>>, children |-> <<>>]

NoMainContent == [FetchFailure EXCEPT !.fetch = "ok"]

NoHeading == [NoMainContent EXCEPT !.main_content = TRUE]

Pages ==
    {FetchFailure, NoMainContent, NoHeading}
        \cup {Article(<<"h">>, children) : children \in SeqsUpTo(TagKinds, MaxChildren)}

\* the two appends in the other order: the original block first
append_pair_original_first(list, type, translated, original) ==
    list \o <<[type |-> type, text |-> original], [type |-> type, text |-> translated]>>

\* content_list.append(translated block); content_list.append(original block)
append_pair(list, type, translated, original) ==
    list \o <<[type |-> type, text |-> translated], [type |-> type, text |-> original]>>

\* f"<bullet> {text}": the text behind the bullet glyph U+2022 and a space
bullet(text) == <<"bullet">> \o text

\* the block type of a child's tag name, main.py 76-84; "" when the tag gives no block
tag_type(name) ==
    CASE name = "p" -> "paragraph"
      [] name = "h2" -> "heading_2"
      [] name = "h4" -> "heading_4"
      [] OTHER -> ""

\* tag.get('class') in [[...], ['prenext']]
skipped(tag) == tag.class \in SkipClasses

\* the last service attempt of a call of translate_to_gujarati gave no translation
fell_back(text, behaviour) ==
    behaviour[translate_to_gujarati(text, behaviour).attempts] # "ok"

\* main.py 58-70: the fetch, the two checks, the heading pair
ScrapeEnter(p) ==
    /\ sc_pc = "idle"
    /\ page' = p
    /\ li_index' = 0
    /\ IF p.fetch # "ok" \/ ~p.main_content \/ ~p.heading
       THEN /\ sc_pc' = "raised"
            /\ content_list' = <<>>
            /\ degraded' = <<>>
            /\ tag_index' = 0
       ELSE \E behaviour \in Behaviours :
               /\ content_list' =
                      append_pair(<<>>, "heading",
                                  translate_to_gujarati(p.heading_text, behaviour).ret,
                                  p.heading_text)
               /\ degraded' = <<fell_back(p.heading_text, behaviour)>>
               /\ tag_index' = 1
               /\ sc_pc' = "tags"

\* one round of the loop of main.py 71-85, up to the list items of a ul
ScrapeTag ==
    /\ sc_pc = "tags"
    /\ tag_index <= Len(page.children)
    /\ LET tag == page.children[tag_index]
       IN  IF skipped(tag)
           THEN /\ tag_index' = tag_index + 1
                /\ UNCHANGED <<sc_pc, li_index, content_list, degraded>>
           ELSE \E behaviour \in Behaviours :
                   LET text == tag.text
                       translated_text == translate_to_gujarati(text, behaviour).ret
                   IN  IF tag_type(tag.name) # ""
                       THEN /\ content_list' = append_pair(content_list, tag_type(tag.name),
                                                           translated_text, text)
                            /\ degraded' = Append(degraded, fell_back(text, behaviour))
                            /\ tag_index' = tag_index + 1
                            /\ UNCHANGED <<sc_pc, li_index>>
                       ELSE IF tag.name = "ul" /\ tag.lis # <<>>
                            THEN /\ sc_pc' = "lis"
                                 /\ li_index' = 1
                                 /\ UNCHANGED <<tag_index, content_list, degraded>>
                            ELSE /\ tag_index' = tag_index + 1
                                 /\ UNCHANGED <<sc_pc, li_index, content_list, degraded>>
    /\ UNCHANGED page

\* one round of the loop of main.py 86-90
ScrapeLi ==
    /\ sc_pc = "lis"
    /\ \E behaviour \in Behaviours :
          LET li_text == page.children[tag_index].lis[li_index]
              translated_li_text == translate_to_gujarati(li_text, behaviour).ret
          IN  /\ content_list' = append_pair(content_list, "list_item",
                                             bullet(translated_li_text), bullet(li_text))
              /\ degraded' = Append(degraded, fell_back(li_text, behaviour))
    /\ IF li_index = Len(page.children[tag_index].lis)
       THEN /\ sc_pc' = "tags"
            /\ tag_index' = tag_index + 1
            /\ li_index' = 0
       ELSE /\ li_index' = li_index + 1
            /\ UNCHANGED <<sc_pc, tag_index>>
    /\ UNCHANGED page

\* main.py 91
ScrapeReturn ==
    /\ sc_pc = "tags"
    /\ tag_index > Len(page.children)
    /\ sc_pc' = "returned"
    /\ UNCHANGED <<page, tag_index, li_index, content_list, degraded>>

\* the steps of a call on its own, whatever the caller
ExtractCall ==
    /\ \E p \in Pages : ScrapeEnter(p)
    /\ UNCHANGED <<collection, dedup_vars, extracted, returned, translate_vars, main_vars>>

ExtractTag == ScrapeTag /\ UNCHANGED <<collection, dedup_vars, extracted, returned, translate_vars, main_vars>>

ExtractLi == ScrapeLi /\ UNCHANGED <<collection, dedup_vars, extracted, returned, translate_vars, main_vars>>

ExtractReturn == ScrapeReturn /\ UNCHANGED <<collection, dedup_vars, extracted, returned, translate_vars, main_vars>>

(* Claims about the Article Extractor *)

\* a content unit the article should give: its block type, the text of its
\* original block and the text of its translated block when translation succeeds
Unit(type, original, translated) ==
    [type |-> type, original |-> original, translated |-> translated]

\* the units of one direct child: none when it is skipped or of another tag,
\* one for a p, h2 or h4, one per list item for a ul
UnitsOfChild(tag) ==
    IF tag.class \in SkipClasses THEN <<>>
    ELSE CASE tag.name = "p" ->
                <<Unit("paragraph", tag.text, GoogleTranslate(tag.text))>>
           [] tag.name = "h2" ->
                <<Unit("heading_2", tag.text, GoogleTranslate(tag.text))>>
           [] tag.name = "h4" ->
                <<Unit("heading_4", tag.text, GoogleTranslate(tag.text))>>
           [] tag.name = "ul" ->
                [k \in 1..Len(tag.lis) |->
                    Unit("list_item", <<"bullet">> \o tag.lis[k],
                         <<"bullet">> \o GoogleTranslate(tag.lis[k]))]
           [] OTHER -> <<>>

RECURSIVE UnitsOfChildren(_)
UnitsOfChildren(children) ==
    IF children = <<>> THEN <<>>
    ELSE UnitsOfChild(Head(children)) \o UnitsOfChildren(Tail(children))

\* the units of an article in source order, the heading first
UnitsOf(p) ==
    <<Unit("heading", p.heading_text, GoogleTranslate(p.heading_text))>>
        \o UnitsOfChildren(p.children)

\* blocks 2k-1 and 2k of list are the (translated, original) pair of unit u; the
\* translated slot holds the translation or, when the translator fell back, the
\* original text
PairMatches(list, k, u) ==
    /\ list[2 * k - 1].type = u.type
    /\ list[2 * k - 1].text \in {u.translated, u.original}
    /\ list[2 * k].type = u.type
    /\ list[2 * k].text = u.original

\* C10: for an article with the content container and a heading the call emits
\* the heading pair and then, in source order, one (translated, original) pair
\* per p, h2 or h4 child and per list item of a ul child that is not skipped,
\* and nothing for any other child; while the call runs its list is a prefix of
\* that sequence.
C10_ExtractorOrdering ==
    sc_pc \in {"tags", "lis", "returned"} =>
        /\ Len(content_list) % 2 = 0
        /\ Len(content_list) <= 2 * Len(UnitsOf(page))
        /\ \A k \in 1..(Len(content_list) \div 2) :
               PairMatches(content_list, k, UnitsOf(page)[k])
        /\ sc_pc = "returned" => Len(content_list) = 2 * Len(UnitsOf(page))

\* a returned call on an article whose children are a list of two items and then
\* a paragraph, with the first list item translated
C10_Witness ==
    /\ sc_pc = "returned"
    /\ Len(page.children) = 2
    /\ page.children[1].name = "ul"
    /\ page.children[2].name = "p"
    /\ ~skipped(page.children[2])
    /\ Len(content_list) = 8
    /\ content_list[3].text = <<"bullet", "gu", "d">>
    /\ content_list[8].text = <<"a">>

\* C11: whatever the translator calls did, the returned list has the length and
\* the block kinds it has when every translation succeeds, its length is even,
\* the second block of every pair carries the original text in the kind of the
\* first, and a pair whose translation degraded carries the same text twice.
C11_BothSlotsPresent ==
    sc_pc = "returned" =>
        /\ Len(content_list) = 2 * Len(UnitsOf(page))
        /\ Len(content_list) % 2 = 0
        /\ Len(degraded) = Len(UnitsOf(page))
        /\ \A k \in 1..Len(UnitsOf(page)) :
               /\ content_list[2 * k - 1].type = UnitsOf(page)[k].type
               /\ content_list[2 * k].type = content_list[2 * k - 1].type
               /\ content_list[2 * k].text = UnitsOf(page)[k].original
               /\ degraded[k] => content_list[2 * k - 1].text = content_list[2 * k].text

\* a returned call of at least three pairs during which every translation
\* degraded
C11_Witness ==
    /\ sc_pc = "returned"
    /\ Len(degraded) >= 3
    /\ \A k \in 1..Len(degraded) : degraded[k]
    /\ Len(content_list) = 2 * Len(degraded)

----------------------------------------------------------------------------
(* The Document Assembler: insert_content_between_placeholders, main.py 93-127 *)

(* A document is the sequence doc.paragraphs: the paragraphs of the body, in   *)
(* order, read afresh at every access. A paragraph has its text, its style and *)
(* elem, the identity of its XML element: the template's paragraphs are        *)
(* numbered 1, 2, ... and every paragraph the assembler adds has elem 0.       *)
(* Python's index i is index i + 1 here, and None is 0.                        *)

START_CONTENT == "START_CONTENT"
END_CONTENT == "END_CONTENT"

\* token in text
Has(text, token) == \E i \in 1..Len(text) : text[i] = token

BodyWords == <<"b1", "b2", "b3", "b4", "b5", "b6", "b7", "b8">>

ParagraphKinds == {"plain", "START", "END"}

MakeTemplate(kinds) ==
    [i \in 1..Len(kinds) |->
        [elem |-> i,
         text |-> CASE kinds[i] = "START" -> <<START_CONTENT>>
                    [] kinds[i] = "END" -> <<END_CONTENT>>
                    [] OTHER -> <<BodyWords[i]>>,
         style |-> "Normal"]]

Templates == {MakeTemplate(kinds) : kinds \in SeqsUpTo(ParagraphKinds, MaxParas)}

Blocks ==
    {[type |-> "heading", text |-> <<"H">>],
     [type |-> "paragraph", text |-> <<"P1">>],
     [type |-> "paragraph", text |-> <<"P2">>],
     [type |-> "list_item", text |-> <<"L">>]}

ContentLists == SeqsUpTo(Blocks, MaxContent)

\* the scan of main.py 97-102 from paragraph i on, start being the value of
\* start_placeholder so far
RECURSIVE scan_placeholders(_, _, _)
scan_placeholders(d, i, start) ==
    IF i > Len(d)
    THEN [start |-> start, end |-> 0]
    ELSE IF Has(d[i].text, START_CONTENT)
         THEN scan_placeholders(d, i + 1, i)
         ELSE IF Has(d[i].text, END_CONTENT)
              THEN [start |-> start, end |-> i]
              ELSE scan_placeholders(d, i + 1, start)

\* p._element.getparent().remove(p._element) for p = doc.paragraphs[i]
remove_paragraph(d, i) == SubSeq(d, 1, i - 1) \o SubSeq(d, i + 1, Len(d))

\* main.py 108-110: for i in range(end_placeholder - 1, start_placeholder, -1)
RECURSIVE remove_loop(_, _, _)
remove_loop(d, i, start) ==
    IF i <= start THEN d
    ELSE remove_loop(remove_paragraph(d, i), i - 1, start)

\* the style doc.add_heading / doc.add_paragraph gives a block, main.py 115-124;
\* "" for a type none of the branches takes
block_style(type) ==
    CASE type = "heading" -> "Heading 1"
      [] type = "paragraph" -> "Normal"
      [] type = "heading_2" -> "Heading 2"
      [] type = "heading_4" -> "Heading 4"
      [] type = "list_item" -> "List Bullet"
      [] OTHER -> ""

\* doc.paragraphs[start]._element.addnext(doc.add_paragraph(...)._element): the new
\* paragraph is appended to the body and then moved to right after paragraph start
add_next(d, start, content) ==
    IF block_style(content.type) = ""
    THEN d
    ELSE LET appended == Append(d, [elem |-> 0, text |-> content.text,
                                    style |-> block_style(content.type)])
             new == appended[Len(appended)]
         IN  SubSeq(appended, 1, start) \o <<new>>
                 \o SubSeq(appended, start + 1, Len(appended) - 1)

\* main.py 112-124: the blocks are visited last to first; k is the next to insert
RECURSIVE insert_loop(_, _, _, _)
insert_loop(d, start, contents, k) ==
    IF k = 0 THEN d
    ELSE insert_loop(add_next(d, start, contents[k]), start, contents, k - 1)

\* doc.paragraphs[i].text = ""
clear_text(d, i) == [d EXCEPT ![i].text = <<>>]

\* The whole call: the document it leaves, the exception it raises ("none" when
\* it returns), whether it logged the missing-placeholder error, and the two
\* indexes it found.
insert_content_between_placeholders(d, contents) ==
    LET found == scan_placeholders(d, 1, 0)
        start_placeholder == found.start
        end_placeholder == found.end
    IN  IF start_placeholder = 0 \/ end_placeholder = 0
        THEN [doc |-> d, raised |-> "none", logged |-> TRUE,
              start |-> start_placeholder, end |-> end_placeholder]
        ELSE LET removed == remove_loop(d, end_placeholder - 1, start_placeholder)
                 inserted == insert_loop(removed, start_placeholder, contents,
                                         Len(contents))
                 start_cleared == clear_text(inserted, start_placeholder)
             IN  IF end_placeholder > Len(start_cleared)
                 THEN [doc |-> start_cleared, raised |-> "IndexError", logged |-> FALSE,
                       start |-> start_placeholder, end |-> end_placeholder]
                 ELSE [doc |-> clear_text(start_cleared, end_placeholder),
                       raised |-> "none", logged |-> FALSE,
                       start |-> start_placeholder, end |-> end_placeholder]

NoInsertion == [state |-> "none", raised |-> "none", logged |-> FALSE, start |-> 0, end |-> 0]

\* main.py 217, and the except clause of 237 when the call raises
MainInsert ==
    /\ pc = "insert"
    /\ LET r == insert_content_between_placeholders(doc, all_content)
       IN  /\ doc' = r.doc
           /\ insertion' = [state |-> "done", raised |-> r.raised, logged |-> r.logged,
                            start |-> r.start, end |-> r.end]
           /\ pc' = IF r.raised = "none" THEN "save" ELSE "failed"
    /\ UNCHANGED <<collection, dedup_vars, extracted, returned, translate_vars, scrape_vars, run_vars,
                   template, all_content>>

(* Claims about the Document Assembler *)

StartParagraphs(d) == {i \in 1..Len(d) : Has(d[i].text, START_CONTENT)}
EndParagraphs(d) == {i \in 1..Len(d) : Has(d[i].text, END_CONTENT)}

\* a template as the data model has it: one START paragraph, one END paragraph
\* after it
WellFormed(d) ==
    /\ Cardinality(StartParagraphs(d)) = 1
    /\ Cardinality(EndParagraphs(d)) = 1
    /\ \A s \in StartParagraphs(d), e \in EndParagraphs(d) : s < e

\* a template that lacks END_CONTENT, or lacks START_CONTENT, or has no START
\* before its first END
MissingMarker(d) ==
    \/ StartParagraphs(d) = {}
    \/ EndParagraphs(d) = {}
    \/ \E e \in EndParagraphs(d) :
          /\ \A e2 \in EndParagraphs(d) : e <= e2
          /\ \A s \in StartParagraphs(d) : s > e

StartElem(d) == CHOOSE s \in StartParagraphs(d) : TRUE
EndElem(d) == CHOOSE e \in EndParagraphs(d) : TRUE

\* where the paragraph with element e stands in d; 0 when it is gone
IndexOfElem(d, e) ==
    IF \E i \in 1..Len(d) : d[i].elem = e
    THEN CHOOSE i \in 1..Len(d) : d[i].elem = e
    ELSE 0

\* the paragraphs of d strictly between the template's two marker paragraphs
Between(d, t) == SubSeq(d, IndexOfElem(d, StartElem(t)) + 1, IndexOfElem(d, EndElem(t)) - 1)

MarkersPresent(d, t) ==
    /\ IndexOfElem(d, StartElem(t)) # 0
    /\ IndexOfElem(d, EndElem(t)) # 0
    /\ IndexOfElem(d, StartElem(t)) < IndexOfElem(d, EndElem(t))

InsertDone == insertion.state = "done"

\* C3: on a template with both markers, after the call the paragraphs strictly
\* between the START paragraph and the END paragraph are exactly the blocks of
\* the content list, in the order of the list, each with its own text.
C3_InsertionCorrect ==
    (InsertDone /\ WellFormed(template)) =>
        /\ MarkersPresent(doc, template)
        /\ Len(Between(doc, template)) = Len(all_content)
        /\ \A k \in 1..Len(all_content) :
               /\ Between(doc, template)[k].text = all_content[k].text
               /\ Between(doc, template)[k].style = block_style(all_content[k].type)

\* C4: on a template with both markers and an empty content list the call
\* completes without error, leaves no paragraph between the markers, and both
\* marker paragraphs are present with empty text.
C4_TemplateIntegrity ==
    (InsertDone /\ WellFormed(template) /\ all_content = <<>>) =>
        /\ insertion.raised = "none"
        /\ MarkersPresent(doc, template)
        /\ Between(doc, template) = <<>>
        /\ doc[IndexOfElem(doc, StartElem(template))].text = <<>>
        /\ doc[IndexOfElem(doc, EndElem(template))].text = <<>>

\* C5: on a template with a marker missing the call fails with TemplateError
\* and the document is left as the template was.
C5_MissingMarkerFails ==
    (InsertDone /\ MissingMarker(template)) =>
        /\ insertion.raised = "TemplateError"
        /\ doc = template

\* C18: on a template with both markers, whatever the number of paragraphs
\* between them and the length of the content list, after the call both marker
\* paragraphs are present with empty text and no paragraph of the document
\* holds a marker string.
C18_MarkersEmptied ==
    (InsertDone /\ WellFormed(template)) =>
        /\ MarkersPresent(doc, template)
        /\ doc[IndexOfElem(doc, StartElem(template))].text = <<>>
        /\ doc[IndexOfElem(doc, EndElem(template))].text = <<>>
        /\ StartParagraphs(doc) = {}
        /\ EndParagraphs(doc) = {}

Least(set) == CHOOSE i \in set : \A j \in set : i <= j

FirstStart(d) == Least(StartParagraphs(d))
EndsAfter(d, i) == {e \in EndParagraphs(d) : e > i}

\* a template with a START paragraph and an END paragraph after the first START
BothMarkers(d) == StartParagraphs(d) # {} /\ EndsAfter(d, FirstStart(d)) # {}

\* C19: the START anchor is the first paragraph that contains START_CONTENT and
\* the END anchor is the first paragraph after it that contains END_CONTENT,
\* also when several paragraphs before the END marker contain START_CONTENT.
C19_MarkerSelection ==
    (InsertDone /\ BothMarkers(template)) =>
        /\ insertion.start = FirstStart(template)
        /\ insertion.end = Least(EndsAfter(template, FirstStart(template)))

\* C20: on a template with both markers the call raises no index error and the
\* paragraphs before the START paragraph and those after the END paragraph are
\* the template's, same elements in the same order with the same text.
C20_Frame ==
    (InsertDone /\ WellFormed(template)) =>
        /\ insertion.raised = "none"
        /\ MarkersPresent(doc, template)
        /\ SubSeq(doc, 1, IndexOfElem(doc, StartElem(template)) - 1)
               = SubSeq(template, 1, StartElem(template) - 1)
        /\ SubSeq(doc, IndexOfElem(doc, EndElem(template)) + 1, Len(doc))
               = SubSeq(template, EndElem(template) + 1, Len(template))

----------------------------------------------------------------------------
(* Delivery: send_pdf_to_telegram, main.py 165-183 *)

\* a delivery that allows one attempt more
send_max_retries_plus_one == 3 + 1

send_max_retries == 3

\* what bot.send_document does on one attempt
SendOutcomes == {"ok", "timeout", "error"}

SendBehaviours == [1..send_max_retries -> SendOutcomes]

\* the for loop of main.py 172-183 from attempt `attempt` on; sleeps counts the
\* time.sleep(5) calls made so far
RECURSIVE send_loop(_, _, _)
send_loop(behaviour, attempt, sleeps) ==
    IF attempt > send_max_retries
    THEN [attempts |-> attempt - 1, sent |-> 0, sleeps |-> sleeps]
    ELSE CASE behaviour[attempt] = "ok" ->
                [attempts |-> attempt, sent |-> 1, sleeps |-> sleeps]
           [] behaviour[attempt] = "timeout" ->
                send_loop(behaviour, attempt + 1, sleeps + 1)
           [] OTHER ->
                [attempts |-> attempt, sent |-> 0, sleeps |-> sleeps]

send_pdf_to_telegram(behaviour) == send_loop(behaviour, 1, 0)

NoDelivery == [state |-> "none", outcomes |-> <<>>, attempts |-> 0, sent |-> 0, sleeps |-> 0]

----------------------------------------------------------------------------
(* The Pipeline Driver: main, main.py 185-238 *)

(* pc is "start" when the program is invoked, then the step main is about to   *)
(* take; "done" when main has returned from its try block, "failed" when the   *)
(* except clause of line 237 has caught and logged an exception. Either way    *)
(* main returns normally and the process ends; the next invocation starts with *)
(* fresh locals and the same collection.                                       *)

\* the templates a run may download
RunTemplates ==
    {MakeTemplate(kinds) : kinds \in
        {<<"START", "END">>,
         <<"START", "plain", "END">>,
         <<"plain", "START", "plain", "END", "plain">>,
         <<"START", "plain">>,
         <<"END", "START">>}}

\* the pages the site may serve for an article URL; the heading names the URL
RunPages(url) ==
    {FetchFailure, NoMainContent, NoHeading,
     Article(<<url>>, <<>>),
     Article(<<url>>, <<Tag("ul", <<>>, <<"d">>, << <<"d">> >>)>>)}

scrape_idle ==
    /\ sc_pc' = "idle"
    /\ page' = FetchFailure
    /\ tag_index' = 0
    /\ li_index' = 0
    /\ content_list' = <<>>
    /\ degraded' = <<>>

\* a new invocation of the program
MainStart ==
    /\ pc \in {"done", "failed"}
    /\ pc' = "start"
    /\ template' = <<>>
    /\ doc' = <<>>
    /\ all_content' = <<>>
    /\ insertion' = NoInsertion
    /\ new_urls' = <<>>
    /\ url_index' = 0
    /\ saved' = FALSE
    /\ converted' = FALSE
    /\ delivery' = NoDelivery
    /\ scrape_idle
    /\ returned' = <<>>
    /\ UNCHANGED <<collection, dedup_vars, extracted, translate_vars>>

\* a driver without the `if not new_urls: return` of lines 198-200
after_gate_without_return(result) == "template"

\* main.py 198-200: where main goes once the gate has returned `result`
after_gate(result) == IF result = <<>> THEN "done" ELSE "template"

\* main.py 196-200: discovery, the Dedup Gate, the return when nothing is new;
\* or discovery raises and line 237 catches; or a call to the store raises inside
\* the gate, the first k URLs having been handled, and line 237 catches
MainDiscover ==
    /\ pc = "start"
    /\ \/ /\ pc' = "failed"
          /\ UNCHANGED <<collection, new_urls>>
       \/ \E article_urls \in UrlLists :
             LET r == check_and_insert_urls(article_urls, collection)
             IN  /\ collection' = r.collection
                 /\ new_urls' = r.new_urls
                 /\ pc' = after_gate(r.new_urls)
       \/ \E article_urls \in UrlLists \ {<<>>} :
             \E k \in 0..(Len(article_urls) - 1) :
                LET r == check_and_insert_urls(SubSeq(article_urls, 1, k), collection)
                IN  /\ collection' = r.collection
                    /\ pc' = "failed"
                    /\ UNCHANGED new_urls
    /\ UNCHANGED <<dedup_vars, extracted, returned, translate_vars, scrape_vars, assemble_vars,
                   url_index, saved, converted, delivery>>

\* main.py 202-211: the template is downloaded and loaded; or TEMPLATE_URL is not
\* set, or the download or the load raises
MainTemplate ==
    /\ pc = "template"
    /\ \/ /\ pc' = "failed"
          /\ UNCHANGED <<template, doc, all_content, url_index>>
       \/ \E t \in RunTemplates :
             /\ template' = t
             /\ doc' = t
             /\ all_content' = <<>>
             /\ url_index' = 1
             /\ pc' = "scrape"
    /\ UNCHANGED <<collection, dedup_vars, extracted, returned, translate_vars, scrape_vars, insertion,
                   new_urls, saved, converted, delivery>>

\* main.py 214: the call of scrape_and_get_content(url) begins
MainScrapeCall ==
    /\ pc = "scrape"
    /\ \E p \in RunPages(new_urls[url_index]) : ScrapeEnter(p)
    /\ extracted' = [extracted EXCEPT ![new_urls[url_index]] = @ + 1]
    /\ UNCHANGED <<collection, dedup_vars, returned, translate_vars, main_vars>>

MainScrapeTag ==
    /\ pc = "scrape"
    /\ ScrapeTag
    /\ UNCHANGED <<collection, dedup_vars, extracted, returned, translate_vars, main_vars>>

MainScrapeLi ==
    /\ pc = "scrape"
    /\ ScrapeLi
    /\ UNCHANGED <<collection, dedup_vars, extracted, returned, translate_vars, main_vars>>

MainScrapeReturn ==
    /\ pc = "scrape"
    /\ ScrapeReturn
    /\ returned' = Append(returned, content_list)
    /\ UNCHANGED <<collection, dedup_vars, extracted, translate_vars, main_vars>>

\* a driver that puts each article's blocks in front of those gathered so far
extend_in_front(list, more) == more \o list

\* main.py 215: list.extend(more)
extend(list, more) == list \o more

\* main.py 215, and the loop of 212 moving on or ending
MainExtend ==
    /\ pc = "scrape"
    /\ sc_pc = "returned"
    /\ all_content' = extend(all_content, content_list)
    /\ IF url_index = Len(new_urls)
       THEN pc' = "insert" /\ UNCHANGED url_index
       ELSE url_index' = url_index + 1 /\ UNCHANGED pc
    /\ scrape_idle
    /\ UNCHANGED <<collection, dedup_vars, extracted, returned, translate_vars, template, doc, insertion,
                   new_urls, saved, converted, delivery>>

\* a driver that catches the exception per article and goes on with the next URL
MainScrapeRaised_skipping ==
    /\ pc = "scrape"
    /\ sc_pc = "raised"
    /\ IF url_index = Len(new_urls)
       THEN pc' = "insert" /\ UNCHANGED url_index
       ELSE url_index' = url_index + 1 /\ UNCHANGED pc
    /\ scrape_idle
    /\ UNCHANGED <<collection, dedup_vars, extracted, returned, translate_vars, assemble_vars,
                   new_urls, saved, converted, delivery>>

\* the exception of main.py 58, 62 or 65 reaches the except clause of 237
MainScrapeRaised ==
    /\ pc = "scrape"
    /\ sc_pc = "raised"
    /\ pc' = "failed"
    /\ UNCHANGED <<collection, dedup_vars, extracted, returned, translate_vars, scrape_vars,
                   assemble_vars, run_vars>>


\* main.py 219-222: doc.save; or it raises
MainSave ==
    /\ pc = "save"
    /\ \/ saved' = TRUE /\ pc' = "convert"
       \/ pc' = "failed" /\ UNCHANGED saved
    /\ UNCHANGED <<collection, dedup_vars, extracted, returned, translate_vars, scrape_vars, assemble_vars,
                   new_urls, url_index, converted, delivery>>

\* a conversion step that, when the conversion fails, takes the URLs of the run
\* back out of the collection
MainConvert_rolling_back ==
    /\ pc = "convert"
    /\ \/ converted' = TRUE /\ pc' = "send" /\ UNCHANGED collection
       \/ /\ pc' = "failed"
          /\ collection' = collection \ Range(new_urls)
          /\ UNCHANGED converted
    /\ UNCHANGED <<dedup_vars, extracted, returned, translate_vars, scrape_vars, assemble_vars,
                   new_urls, url_index, saved, delivery>>

\* main.py 224: convert_docx_to_pdf returns; or it raises (147-163)
MainConvert ==
    /\ pc = "convert"
    /\ \/ converted' = TRUE /\ pc' = "send"
       \/ pc' = "failed" /\ UNCHANGED converted
    /\ UNCHANGED <<collection, dedup_vars, extracted, returned, translate_vars, scrape_vars, assemble_vars,
                   new_urls, url_index, saved, delivery>>

\* main.py 226-232: the bot token or channel id is not set; or the delivery runs
MainSend ==
    /\ pc = "send"
    /\ \/ pc' = "failed" /\ UNCHANGED delivery
       \/ \E behaviour \in SendBehaviours :
             LET r == send_pdf_to_telegram(behaviour)
             IN  /\ delivery' = [state |-> "returned",
                                 outcomes |-> SubSeq(behaviour, 1, r.attempts),
                                 attempts |-> r.attempts,
                                 sent |-> r.sent, sleeps |-> r.sleeps]
                 /\ pc' = "cleanup"
    /\ UNCHANGED <<collection, dedup_vars, extracted, returned, translate_vars, scrape_vars, assemble_vars,
                   new_urls, url_index, saved, converted>>

\* main.py 234-235
MainCleanup ==
    /\ pc = "cleanup"
    /\ pc' = "done"
    /\ UNCHANGED <<collection, dedup_vars, extracted, returned, translate_vars, scrape_vars, assemble_vars,
                   run_vars>>

(* Claims about the run *)

\* C6: in a run whose template lacks a marker, once the assembler step is over
\* the run is aborted: no document is saved, converted to PDF or sent.
C6_MissingMarkerAbortsRun ==
    (InsertDone /\ MissingMarker(template)) =>
        /\ ~saved
        /\ ~converted
        /\ delivery.attempts = 0

\* nothing after the gate has happened in this run: no template, no extraction,
\* no assembly, no rendering, no delivery
NothingProduced ==
    /\ template = <<>>
    /\ doc = <<>>
    /\ sc_pc = "idle"
    /\ content_list = <<>>
    /\ all_content = <<>>
    /\ insertion.state = "none"
    /\ ~saved
    /\ ~converted
    /\ delivery.state = "none"

\* C12: a run in which the gate returned no new URL has ended, normally, right
\* after the gate: main is at none of the later steps and nothing was produced.
C12_NoNewUrlsEndsRun ==
    new_urls = <<>> =>
        /\ pc \in {"start", "done", "failed"}
        /\ NothingProduced

\* a run that ended at the gate, every discovered URL being in the seen-set
C12_Witness ==
    /\ pc = "done"
    /\ new_urls = <<>>
    /\ collection # {}
    /\ NothingProduced

\* a call of scrape_and_get_content of this run has raised
ExtractionFailed == sc_pc = "raised"

\* C13: when the extraction of an article fails, the run is aborted: the only
\* step main takes is into the except clause of line 237 (it returns normally,
\* "failed"), with no further article extracted and nothing assembled, rendered
\* or delivered; and every URL the gate returned in the run is in the seen-set
\* and stays there when the next run begins.
C13_ExtractionFailureAbortsRun ==
    /\ [](ExtractionFailed =>
            /\ pc \in {"scrape", "failed"}
            /\ insertion.state = "none"
            /\ ~saved
            /\ ~converted
            /\ delivery.state = "none"
            /\ Range(new_urls) \subseteq collection)
    /\ [][ExtractionFailed =>
            \/ /\ pc = "scrape"
               /\ pc' = "failed"
               /\ UNCHANGED <<collection, scrape_vars, assemble_vars, run_vars>>
            \/ /\ pc = "failed"
               /\ pc' = "start"
               /\ UNCHANGED collection]_vars

\* a run of two new URLs aborted by the failure of the first extraction: the
\* second article was never fetched and is in the seen-set
C13_Witness ==
    /\ pc = "failed"
    /\ ExtractionFailed
    /\ Len(new_urls) >= 2
    /\ url_index = 1
    /\ new_urls[2] \in collection

\* C14: no step of any run, whatever stage of it fails, takes a URL out of the
\* seen-set.
C14_SeenSetOnlyGrows == [][collection \subseteq collection']_vars

\* a run whose conversion failed, its URLs in the seen-set beside those of
\* earlier runs
C14_Witness ==
    /\ pc = "failed"
    /\ saved
    /\ ~converted
    /\ new_urls # <<>>
    /\ Range(new_urls) \subseteq collection
    /\ collection # Range(new_urls)

\* C15: over all runs every URL is passed to the extractor at most once; the
\* gate of a run returns no URL that was in the seen-set when the run began, so
\* a URL marked seen in a run that failed is not extracted by a later run; and
\* the extractor is called only with the URL main's loop is at, never called
\* with before.
C15_AtMostOnce ==
    /\ [](\A url \in Urls : extracted[url] <= 1)
    /\ [][/\ pc = "start" => Range(new_urls') \cap collection = {}
          /\ \A url \in Urls :
                extracted'[url] # extracted[url] =>
                    /\ pc = "scrape"
                    /\ url = new_urls[url_index]
                    /\ extracted[url] = 0]_vars

\* a run that ended at the gate although a URL of the seen-set was never
\* extracted: the run that marked it seen failed before reaching it
C15_Witness ==
    /\ pc = "done"
    /\ new_urls = <<>>
    /\ \E url \in collection : extracted[url] = 0
    /\ \E url \in collection : extracted[url] = 1

RECURSIVE Concatenation(_)
Concatenation(lists) ==
    IF lists = <<>> THEN <<>> ELSE Head(lists) \o Concatenation(Tail(lists))

\* the loop of main.py 212-215 has ended and the assembler is, or was, called
Aggregated == pc = "insert" \/ insertion.state = "done"

\* C16: the list handed to the assembler is the lists the extractor returned,
\* one per URL of new_urls and in that order, each whole and once, one after the
\* other; the i-th of them is the article of the i-th URL (its heading names it).
C16_AggregationOrder ==
    Aggregated =>
        /\ Len(returned) = Len(new_urls)
        /\ all_content = Concatenation(returned)
        /\ \A i \in 1..Len(returned) :
               /\ Len(returned[i]) >= 2
               /\ returned[i][2] = [type |-> "heading", text |-> <<new_urls[i]>>]

\* three articles were aggregated, the middle one longer than the others
C16_Witness ==
    /\ Aggregated
    /\ Len(new_urls) = 3
    /\ Len(returned[1]) = 2
    /\ Len(returned[2]) = 4
    /\ Len(returned[3]) = 2

\* C17: a delivery makes between one and 3 attempts; every attempt but the last
\* timed out, so it tries again only after a timeout and stops at the first
\* success and at the first other error; it stops on a timeout only at the third
\* attempt; it sends at most once; and it returns to main, which goes on to the
\* clean-up and ends, whatever the attempts gave, three timeouts included.
C17_DeliveryRetry ==
    delivery.state = "returned" =>
        LET o == delivery.outcomes
        IN  /\ delivery.attempts = Len(o)
            /\ Len(o) >= 1
            /\ Len(o) <= 3
            /\ \A i \in 1..(Len(o) - 1) : o[i] = "timeout"
            /\ o[Len(o)] = "timeout" => Len(o) = 3
            /\ delivery.sent = Cardinality({i \in 1..Len(o) : o[i] = "ok"})
            /\ delivery.sent <= 1
            /\ delivery.sleeps = Cardinality({i \in 1..Len(o) : o[i] = "timeout"})
            /\ pc \in {"cleanup", "done"}

\* three timeouts in a row, nothing sent, and the run has ended
C17_Witness ==
    /\ pc = "done"
    /\ delivery.state = "returned"
    /\ delivery.outcomes = <<"timeout", "timeout", "timeout">>
    /\ delivery.sent = 0

----------------------------------------------------------------------------
(* Specifications *)

Init ==
    /\ collection = {}
    /\ dedup_log = <<>>
    /\ translation = NoTranslation
    /\ pc = "start"
    /\ template = <<>>
    /\ doc = <<>>
    /\ all_content = <<>>
    /\ insertion = NoInsertion
    /\ sc_pc = "idle"
    /\ page = FetchFailure
    /\ tag_index = 0
    /\ li_index = 0
    /\ content_list = <<>>
    /\ degraded = <<>>
    /\ new_urls = <<>>
    /\ url_index = 0
    /\ saved = FALSE
    /\ converted = FALSE
    /\ delivery = NoDelivery
    /\ extracted = [url \in Urls |-> 0]
    /\ returned = <<>>

Next ==
    \/ MainStart
    \/ MainDiscover
    \/ MainTemplate
    \/ MainScrapeCall
    \/ MainScrapeTag
    \/ MainScrapeLi
    \/ MainScrapeReturn
    \/ MainExtend
    \/ MainScrapeRaised
    \/ MainInsert
    \/ MainSave
    \/ MainConvert
    \/ MainSend
    \/ MainCleanup

Spec == Init /\ [][Next]_vars

DedupNext == DedupCall
DedupSpec == Init /\ [][DedupNext]_vars

TranslateNext == TranslateCall
TranslateSpec == Init /\ [][TranslateNext]_vars

ExtractNext == ExtractCall \/ ExtractTag \/ ExtractLi \/ ExtractReturn
ExtractSpec == Init /\ [][ExtractNext]_vars

\* the assembler on every template and content list of the bounds: main at line 217
AssembleInit ==
    /\ collection = {}
    /\ dedup_log = <<>>
    /\ translation = NoTranslation
    /\ pc = "insert"
    /\ template \in Templates
    /\ doc = template
    /\ all_content \in ContentLists
    /\ insertion = NoInsertion
    /\ sc_pc = "idle"
    /\ page = FetchFailure
    /\ tag_index = 0
    /\ li_index = 0
    /\ content_list = <<>>
    /\ degraded = <<>>
    /\ new_urls = <<>>
    /\ url_index = 0
    /\ saved = FALSE
    /\ converted = FALSE
    /\ delivery = NoDelivery
    /\ extracted = [url \in Urls |-> 0]
    /\ returned = <<>>

AssembleNext == MainInsert
AssembleSpec == AssembleInit /\ [][AssembleNext]_vars

====
